---- MODULE Spec2Model ----
(***************************************************************************)
(* Model of bestchain.cpp: main reads 80-byte block headers into an HMap   *)
(* (a vector of (hash, Block) pairs kept sorted by hash), counts the chain *)
(* tips, selects the block with the most accumulated work (findBest with   *)
(* the workCache memo of determineWork), walks back to the root and emits  *)
(* one record per block of the chain.                                      *)
(*                                                                         *)
(* A 256-bit hash is a small natural number; NullHash is hash256_t{} (all  *)
(* zero bytes).  totalWork is a size_t sum of uint32_t values: within the  *)
(* bounds below it is far from 2^64, so it is an unbounded integer here.   *)
(***************************************************************************)
EXTENDS Integers, Sequences, FiniteSets, TLC

MaxHash == 3        \* block hashes are 1..MaxHash (no header hashes to NullHash)
MaxBits == 2        \* the bits field is 0..MaxBits
MaxBlocks == 3      \* headers read from stdin

NullHash == 0       \* hash256_t{} : the default member initializer

Hashes == 1..MaxHash
PrevHashes == 0..MaxHash
BitsValues == 0..MaxBits

VARIABLES pc, blocks, chainTips, workCache, blockIter, bestBlock, mostWork,
          bestBlockChain, output

vars == <<pc, blocks, chainTips, workCache, blockIter, bestBlock, mostWork,
          bestBlockChain, output>>

-----------------------------------------------------------------------------
(* struct Block *)

Block(hash, prevBlockHash, bits) ==
    [hash |-> hash, prevBlockHash |-> prevBlockHash, bits |-> bits]

(* Block () {} leaves bits uninitialised: any uint32_t value. *)
DefaultBlocks == { Block(NullHash, NullHash, u) : u \in BitsValues }

-----------------------------------------------------------------------------
(* HMap<K, V>: a std::vector of pairs, searched by binary search on .first *)

(* HMap::find: the index of the first entry with key k, 0 for end() *)
find(m, k) ==
    IF \E j \in 1..Len(m) : m[j].first = k
    THEN CHOOSE j \in 1..Len(m) :
            m[j].first = k /\ \A l \in 1..(j - 1) : m[l].first # k
    ELSE 0

(* HMap::insort: insert (k, v) at the lower bound of k *)
insort(m, k, v) ==
    LET n == Cardinality({ j \in 1..Len(m) : m[j].first < k })
    IN  SubSeq(m, 1, n) \o << [first |-> k, second |-> v] >> \o SubSeq(m, n + 1, Len(m))

(* HMap::sort: order the entries by key *)
RECURSIVE sort(_)
sort(m) ==
    IF m = << >> THEN << >>
    ELSE insort(sort(Tail(m)), Head(m).first, Head(m).second)

-----------------------------------------------------------------------------
(* findChainTips *)

findChainTips_inverted(blks) ==
    LET parents == { blks[j].second.prevBlockHash :
                        j \in { l \in 1..Len(blks) :
                                  find(blks, blks[l].second.prevBlockHash) # 0 } }
        kept == SelectSeq(blks, LAMBDA e : e.second.hash \in parents)
    IN  [ j \in 1..Len(kept) |-> kept[j].second ]

findChainTips(blks) ==
    LET parents == { blks[j].second.prevBlockHash :
                        j \in { l \in 1..Len(blks) :
                                  find(blks, blks[l].second.prevBlockHash) # 0 } }
        kept == SelectSeq(blks, LAMBDA e : e.second.hash \notin parents)
    IN  [ j \in 1..Len(kept) |-> kept[j].second ]

-----------------------------------------------------------------------------
(* determineWork *)

RECURSIVE determineWorkLoop(_, _, _, _)
determineWorkLoop(cache, blks, visitor, totalWork) ==
    LET prevBlockIter == find(blks, visitor.prevBlockHash)
        prevBlockWorkCacheIter == find(cache, visitor.prevBlockHash)
    IN  IF prevBlockIter = 0 THEN totalWork
        ELSE IF prevBlockWorkCacheIter # 0
             THEN totalWork + cache[prevBlockWorkCacheIter].second
             ELSE determineWorkLoop(cache, blks, blks[prevBlockIter].second,
                                    totalWork + blks[prevBlockIter].second.bits)

(* the memo hit ends the walk without adding the memoised work *)
RECURSIVE determineWorkLoop_dropHit(_, _, _, _)
determineWorkLoop_dropHit(cache, blks, visitor, totalWork) ==
    LET prevBlockIter == find(blks, visitor.prevBlockHash)
        prevBlockWorkCacheIter == find(cache, visitor.prevBlockHash)
    IN  IF prevBlockIter = 0 THEN totalWork
        ELSE IF prevBlockWorkCacheIter # 0
             THEN totalWork
             ELSE determineWorkLoop_dropHit(cache, blks, blks[prevBlockIter].second,
                                    totalWork + blks[prevBlockIter].second.bits)

determineWork_dropHit(cache, blks, source) ==
    determineWorkLoop_dropHit(cache, blks, source, source.bits)

determineWork(cache, blks, source) ==
    determineWorkLoop(cache, blks, source, source.bits)

-----------------------------------------------------------------------------
(* findBest: the walk from the best block back to the root *)

RECURSIVE walkChain(_, _)
walkChain(blks, visitor) ==
    LET prevBlockIter == find(blks, visitor.prevBlockHash)
    IN  IF prevBlockIter = 0 THEN << visitor >>
        ELSE << visitor >> \o walkChain(blks, blks[prevBlockIter].second)

reverse(s) == [ j \in 1..Len(s) |-> s[Len(s) + 1 - j] ]

-----------------------------------------------------------------------------
(* main: reading the headers.  hash256 is a cryptographic hash of the whole *)
(* record: two records with the same hash are the same record, and no       *)
(* record's ancestry leads back to itself.                                  *)

RECURSIVE ancestry(_, _)
ancestry(blks, h) ==
    LET p == find(blks, h)
    IN  IF p = 0 THEN {h}
        ELSE {h} \cup ancestry(blks, blks[p].second.prevBlockHash)

hash256(blks, hash, prevBlockHash, bits) ==
    /\ \A j \in 1..Len(blks) :
          blks[j].first = hash => blks[j].second = Block(hash, prevBlockHash, bits)
    /\ hash \notin ancestry(blks, prevBlockHash)

Init ==
    /\ pc = "read"
    /\ blocks = << >>
    /\ chainTips = << >>
    /\ workCache = << >>
    /\ blockIter = 1
    /\ bestBlock = Block(NullHash, NullHash, 0)
    /\ mostWork = 0
    /\ bestBlockChain = << >>
    /\ output = << >>

(* One iteration of the read loop: emplace_back of the record's block.     *)
(* Records arrive in non-increasing hash order here; blocks.sort() makes   *)
(* the store independent of the arrival order.                             *)
ReadHeader ==
    /\ pc = "read"
    /\ Len(blocks) < MaxBlocks
    /\ \E hash \in Hashes, prevBlockHash \in PrevHashes, bits \in BitsValues :
          /\ hash256(blocks, hash, prevBlockHash, bits)
          /\ Len(blocks) > 0 => hash <= blocks[Len(blocks)].first
          /\ blocks' = Append(blocks,
                          [first |-> hash, second |-> Block(hash, prevBlockHash, bits)])
    /\ UNCHANGED <<pc, chainTips, workCache, blockIter, bestBlock, mostWork,
                   bestBlockChain, output>>

(* EOF: leave the loop and sort the store *)
ReadEOF ==
    /\ pc = "read"
    /\ blocks' = sort(blocks)
    /\ pc' = "tips"
    /\ UNCHANGED <<chainTips, workCache, blockIter, bestBlock, mostWork,
                   bestBlockChain, output>>

(* how many tips exist? *)
CountTips ==
    /\ pc = "tips"
    /\ chainTips' = findChainTips(blocks)
    /\ pc' = "findBest"
    /\ UNCHANGED <<blocks, workCache, blockIter, bestBlock, mostWork,
                   bestBlockChain, output>>

(* findBest: the locals *)
FindBestBegin ==
    /\ pc = "findBest"
    /\ bestBlock' \in DefaultBlocks
    /\ mostWork' = 0
    /\ workCache' = << >>
    /\ blockIter' = 1
    /\ pc' = "pass"
    /\ UNCHANGED <<blocks, chainTips, bestBlockChain, output>>

(* the memo receives the block's own bits instead of its accumulated work *)
FindBestStep_cacheBits ==
    /\ pc = "pass"
    /\ blockIter <= Len(blocks)
    /\ LET block == blocks[blockIter].second
           work == determineWork(workCache, blocks, block)
       IN  /\ workCache' = insort(workCache, block.hash, block.bits)
           /\ IF work > mostWork
              THEN bestBlock' = block /\ mostWork' = work
              ELSE UNCHANGED <<bestBlock, mostWork>>
    /\ blockIter' = blockIter + 1
    /\ UNCHANGED <<pc, blocks, chainTips, bestBlockChain, output>>

(* the comparison is turned around *)
FindBestStep_less ==
    /\ pc = "pass"
    /\ blockIter <= Len(blocks)
    /\ LET block == blocks[blockIter].second
           work == determineWork(workCache, blocks, block)
       IN  /\ workCache' = insort(workCache, block.hash, work)
           /\ IF work < mostWork
              THEN bestBlock' = block /\ mostWork' = work
              ELSE UNCHANGED <<bestBlock, mostWork>>
    /\ blockIter' = blockIter + 1
    /\ UNCHANGED <<pc, blocks, chainTips, bestBlockChain, output>>

(* findBest: one iteration of the pass over the store *)
FindBestStep ==
    /\ pc = "pass"
    /\ blockIter <= Len(blocks)
    /\ LET block == blocks[blockIter].second
           work == determineWork(workCache, blocks, block)
       IN  /\ workCache' = insort(workCache, block.hash, work)
           /\ IF work > mostWork
              THEN bestBlock' = block /\ mostWork' = work
              ELSE UNCHANGED <<bestBlock, mostWork>>
    /\ blockIter' = blockIter + 1
    /\ UNCHANGED <<pc, blocks, chainTips, bestBlockChain, output>>

(* the chain is returned as walked, tip first *)
FindBestWalk_noReverse ==
    /\ pc = "pass"
    /\ blockIter > Len(blocks)
    /\ bestBlockChain' = walkChain(blocks, bestBlock)
    /\ pc' = "emit"
    /\ UNCHANGED <<blocks, chainTips, workCache, blockIter, bestBlock, mostWork,
                   output>>

(* findBest: walk the chain, reverse it, return it to main *)
FindBestWalk ==
    /\ pc = "pass"
    /\ blockIter > Len(blocks)
    /\ bestBlockChain' = reverse(walkChain(blocks, bestBlock))
    /\ pc' = "emit"
    /\ UNCHANGED <<blocks, chainTips, workCache, blockIter, bestBlock, mostWork,
                   output>>

(* main: blockChainMap, as built and sorted *)
blockChainMap ==
    sort([ j \in 1..Len(bestBlockChain) |->
              [first |-> bestBlockChain[j].hash, second |-> j - 1] ])

(* main: output the best chain.  memcpy(blockIter.first.begin(), sbuf, 32)  *)
(* copies sbuf into the key: the first 32 bytes of sbuf are never written,  *)
(* and every record carries whatever the stack held there.                  *)
Emit ==
    /\ pc = "emit"
    /\ \E sbuf \in PrevHashes :
          output' = [ j \in 1..Len(blockChainMap) |->
                        [hash |-> sbuf, height |-> blockChainMap[j].second] ]
    /\ pc' = "done"
    /\ UNCHANGED <<blocks, chainTips, workCache, blockIter, bestBlock, mostWork,
                   bestBlockChain>>

Next ==
    \/ ReadHeader
    \/ ReadEOF
    \/ CountTips
    \/ FindBestBegin
    \/ FindBestStep
    \/ FindBestWalk
    \/ Emit

Spec == Init /\ [][Next]_vars

-----------------------------------------------------------------------------
(* What the store says, independently of the memo *)

Keys == { blocks[j].first : j \in 1..Len(blocks) }
StoreBlocks == { blocks[j].second : j \in 1..Len(blocks) }
blockOf(h) == CHOOSE b \in StoreBlocks : b.hash = h

RECURSIVE cumulativeWork(_)
cumulativeWork(b) ==
    b.bits + (IF b.prevBlockHash \in Keys
              THEN cumulativeWork(blockOf(b.prevBlockHash)) ELSE 0)

RECURSIVE sumBits(_)
sumBits(chain) ==
    IF chain = << >> THEN 0 ELSE Head(chain).bits + sumBits(Tail(chain))

TipBlocks ==
    { b \in StoreBlocks : \A c \in StoreBlocks : c.prevBlockHash # b.hash }
RootBlocks == { b \in StoreBlocks : b.prevBlockHash \notin Keys }

Range(s) == { s[j] : j \in 1..Len(s) }

TipsCounted == pc \in {"findBest", "pass", "emit", "done"}
InPass == pc \in {"pass", "emit", "done"}
Returned == pc \in {"emit", "done"}

(* the store is one linear chain: distinct blocks, one root, no fork *)
LinearChain ==
    /\ Len(blocks) >= 1
    /\ Cardinality(Keys) = Len(blocks)
    /\ Cardinality(RootBlocks) = 1
    /\ \A b \in StoreBlocks :
          Cardinality({ c \in StoreBlocks : c.prevBlockHash = b.hash }) <= 1

Contiguous(chain) ==
    /\ Len(chain) >= 1
    /\ chain[1].prevBlockHash \notin Keys
    /\ \A k \in 2..Len(chain) : chain[k].prevBlockHash = chain[k - 1].hash

TipsPositive == \A b \in TipBlocks : b.bits > 0

-----------------------------------------------------------------------------
(* C1: the chain findBest returns has an accumulated weight (mostWork) equal *)
(* to the sum of bits over exactly the blocks on that chain, and that weight *)
(* is at least the accumulated weight of every root-to-tip path of the store *)
(* (stated for the non-empty stores; C2 is about the empty one)              *)
C1_BestChainWeight ==
    (Returned /\ Len(blocks) > 0) =>
        /\ mostWork = sumBits(bestBlockChain)
        /\ \A t \in TipBlocks : sumBits(bestBlockChain) >= cumulativeWork(t)

(* C2: findBest on an empty store fails: it does not return a chain *)
C2_EmptyStoreFails == ~(Returned /\ Len(blocks) = 0)

(* C3 as stated: for a store that is a single linear chain of N blocks, with *)
(* any weights, findChainTips returns exactly 1 tip and findBest returns the *)
(* N blocks of the store in root-to-tip order.  Stated for the runs in which *)
(* the pass selected a block (mostWork > 0): it fails there too, so not only *)
(* where C10 fails                                                           *)
C3_LinearChainAnyWeights ==
    (Returned /\ LinearChain /\ mostWork > 0) =>
        /\ Len(chainTips) = 1
        /\ Len(bestBlockChain) = Len(blocks)
        /\ Range(bestBlockChain) = StoreBlocks
        /\ Contiguous(bestBlockChain)

(* C3 as amended: for a store that is a single linear chain of N blocks,     *)
(* findChainTips returns exactly 1 tip whatever the weights, and findBest    *)
(* returns the N blocks of the store in root-to-tip order when the weight of *)
(* the chain's tip is positive                                               *)
C3_LinearChainTipPositive ==
    /\ (TipsCounted /\ LinearChain) => Len(chainTips) = 1
    /\ (Returned /\ LinearChain /\ TipsPositive) =>
          /\ Len(bestBlockChain) = Len(blocks)
          /\ Range(bestBlockChain) = StoreBlocks
          /\ Contiguous(bestBlockChain)

(* a three-block linear chain whose root sorts last in the store *)
C3_Witness ==
    /\ pc = "done"
    /\ LinearChain
    /\ TipsPositive
    /\ Len(blocks) = 3
    /\ blocks[3].second \in RootBlocks
    /\ Len(bestBlockChain) = 3

(* C4: the returned chain is contiguous: every element but the first has     *)
(* prevBlockHash equal to the hash of the element before it, and the first   *)
(* element's prevBlockHash is not a key of the store                         *)
C4_Contiguous == Returned => Contiguous(bestBlockChain)

(* a returned chain of three blocks *)
C4_Witness == pc = "done" /\ Len(bestBlockChain) = 3

(* C5 as stated: the last element of the returned chain is a block that is   *)
(* no other block's parent, one of the blocks findChainTips returns.  Stated *)
(* for the runs in which the pass selected a block (mostWork > 0): it fails  *)
(* there too, so not only where C2 and C10 fail                              *)
C5_EndsAtTip ==
    (Returned /\ mostWork > 0) =>
        /\ bestBlockChain[Len(bestBlockChain)] \in TipBlocks
        /\ bestBlockChain[Len(bestBlockChain)] \in Range(chainTips)

(* C5 as amended: when the store is not empty and every block that is no     *)
(* other block's parent has a positive weight, the last element of the       *)
(* returned chain is such a block, one of the blocks findChainTips returns   *)
C5_EndsAtTipWhenTipsPositive ==
    (Returned /\ Len(blocks) > 0 /\ TipsPositive) =>
        /\ bestBlockChain[Len(bestBlockChain)] \in TipBlocks
        /\ bestBlockChain[Len(bestBlockChain)] \in Range(chainTips)

(* a fork with two tips of positive weight, the chain ending at one of them *)
C5_Witness ==
    /\ pc = "done"
    /\ TipsPositive
    /\ Cardinality(TipBlocks) = 2
    /\ Cardinality(RootBlocks) = 1
    /\ Len(bestBlockChain) = 2

(* C6: at every point of the findBest pass, determineWork of every block of  *)
(* the store gives the same result with the memo as populated so far as with *)
(* an empty memo                                                             *)
C6_MemoIndependent ==
    InPass =>
        \A j \in 1..Len(blocks) :
            determineWork(workCache, blocks, blocks[j].second)
                = determineWork(<< >>, blocks, blocks[j].second)

(* mid-pass, a block whose walk ends on a memo hit at a parent that itself   *)
(* has a parent in the store                                                 *)
C6_Witness ==
    /\ pc = "pass"
    /\ \E j \in 1..Len(blocks) :
          /\ find(workCache, blocks[j].second.prevBlockHash) # 0
          /\ blockOf(blocks[j].second.prevBlockHash).prevBlockHash \in Keys

(* C7: main emits exactly one record per block of the chain, ordered by      *)
(* identity, holding the block's hash and its height, the root at height 0   *)
(* (stated for the runs in which the pass selected a block of the store)     *)
C7_OutputRecords ==
    (pc = "done" /\ mostWork > 0) =>
        /\ Len(output) = Len(bestBlockChain)
        /\ \A j \in 1..(Len(output) - 1) : output[j].hash < output[j + 1].hash
        /\ \A k \in 1..Len(bestBlockChain) :
              [hash |-> bestBlockChain[k].hash, height |-> k - 1] \in Range(output)

(* C8: for every non-empty store findChainTips returns at least one block *)
C8_TipsNonEmpty == (TipsCounted /\ Len(blocks) > 0) => Len(chainTips) > 0

(* a forked store: three entries, two tips returned *)
C8_Witness == pc = "findBest" /\ Len(blocks) = 3 /\ Len(chainTips) = 2

(* C9: every entry of workCache maps a block's hash to that block's          *)
(* cumulative work; entries with the same hash hold the same value; the memo *)
(* only grows, by one entry at a time, keeping the entries it has            *)
CacheExact ==
    /\ \A j \in 1..Len(workCache) :
          /\ workCache[j].first \in Keys
          /\ workCache[j].second = cumulativeWork(blockOf(workCache[j].first))
    /\ \A j, k \in 1..Len(workCache) :
          workCache[j].first = workCache[k].first
              => workCache[j].second = workCache[k].second

CacheGrows ==
    workCache' # workCache =>
        \E k \in 1..Len(workCache') :
            workCache = SubSeq(workCache', 1, k - 1)
                            \o SubSeq(workCache', k + 1, Len(workCache'))

C9_MemoExactAndGrowing == [](CacheExact) /\ [][CacheGrows]_vars

(* the same hash inserted twice, and an entry that was summed through a hit *)
C9_Witness ==
    /\ pc = "pass"
    /\ \E j, k \in 1..Len(workCache) :
          j # k /\ workCache[j].first = workCache[k].first
    /\ \E j \in 1..Len(workCache) :
          blockOf(workCache[j].first).prevBlockHash \in Keys

(* C10: for every non-empty store, every block of the returned chain is a    *)
(* block of the store, also when every block has weight 0                    *)
C10_ChainOfStoreBlocks ==
    (Returned /\ Len(blocks) > 0) =>
        \A k \in 1..Len(bestBlockChain) : bestBlockChain[k] \in StoreBlocks

====
